---- MODULE Spec2Model ----
(***************************************************************************)
(* Chunked asset transfer and store of talking-airi:                       *)
(*   IndexedDBStorage / HuggingFaceBrowserDownloader                       *)
(*       packages/stage-ui/src/utils/huggingface-browser-downloader.ts     *)
(*   DownloadManager  (services/download-manager, src/unnamed/part_002)    *)
(*   useDownloadsStore  packages/stage-ui/src/stores/downloads.ts          *)
(*   HuggingFaceModelDownloader.vue (the guard of its downloadModel)       *)
(*                                                                         *)
(* Every await of the code is a suspension point and ends an action; the   *)
(* synchronous code between two awaits is one action.  An IndexedDB        *)
(* request takes effect when its transaction is created (transactions with *)
(* overlapping scope run in creation order), its promise resolves in a     *)
(* later action.  Sizes are scaled: CHUNK_SIZE is 2 bytes instead of       *)
(* 10 MiB, bodies have at most MaxBody bytes.                              *)
(***************************************************************************)
EXTENDS Integers, Sequences, FiniteSets, TLC

\* ------------------------------------------------------------------ bounds
MaxSessions == 2      \* downloadModel invocations in one behaviour
MaxBody     == 3      \* bytes an origin delivers in one transfer
MaxRange    == 2      \* bytes one reader.read() delivers
MaxClock    == 1      \* Date.now() ranges over 0..MaxClock
MaxDeletes  == 1      \* deleteModel calls in one behaviour

\* --------------------------------------------------------------- constants
CHUNK_SIZE == 2       \* readonly CHUNK_SIZE (scaled from 10 MiB)
MAX_ITERATIONS == 3   \* const MAX_ITERATIONS (scaled from 100000)

\* The catalogue (ModelInfo): name is the storage key, filename is what the
\* already-downloaded check and the download id use.
Models ==
  { [name |-> "m1", filename |-> "f1", sizeBytes |-> 2],
    [name |-> "m2", filename |-> "f2", sizeBytes |-> 2] }

Names == { m.name : m \in Models }

Info(n) == CHOOSE m \in Models : m.name = n

Sessions == 1..MaxSessions

\* Content-Length values an origin may declare, and navigator.storage
\* estimates (usage, quota) the host may report.
ContentLengths == {0, 2}
Usages         == {0, 1}
Quotas         == {0, 3}

\* The body lengths an origin serves: an empty body or a full one.  A
\* transfer that ends anywhere else ends with an error.
BodyLengths == {0, MaxBody}

\* ------------------------------------------------------------------- bytes
\* The p-th byte of asset n at the origin.
Byte(n, p) == <<n, p>>

Body(n, len) == [p \in 1..len |-> Byte(n, p)]

\* Uint8Array.slice(from, to) with 0-based, end-exclusive offsets.
Slice(data, from, to) ==
  LET hi == IF to > Len(data) THEN Len(data) ELSE to
  IN  IF from >= hi THEN <<>> ELSE SubSeq(data, from + 1, hi)

\* ---------------------------------------------------------------- progress
\* A JavaScript number d / t * 100 kept exact as a fraction; x / 0 is
\* Infinity for x > 0 and NaN for x = 0.
Num(n, d)   == [kind |-> "num", num |-> n, den |-> d]
NaN         == [kind |-> "NaN", num |-> 0, den |-> 1]
Infinity    == [kind |-> "Infinity", num |-> 0, den |-> 1]
NoProgress  == [kind |-> "none", num |-> 0, den |-> 1]

\* const progress = (downloadedBytes / totalBytes) * 100
Percent(downloaded, total) ==
  IF total = 0
    THEN IF downloaded = 0 THEN NaN ELSE Infinity
    ELSE IF downloaded = 0 THEN Num(0, 1) ELSE Num(downloaded * 100, total)

VARIABLES
  models,           \* object store 'models': id -> StoredModel
  chunks,           \* object store 'chunks': <<modelId, chunkIndex>> -> data
  abortController,  \* HuggingFaceBrowserDownloader.abortController (0 = null)
  aborted,          \* the AbortControllers whose signal is aborted
  activeDownloads,  \* useDownloadsStore.activeDownloads: id -> ActiveDownload
  now,              \* Date.now()
  sess,             \* the downloadModel invocations
  deletes,          \* deleteModel calls made so far
  last,             \* the invocation that made the last step, as that step
                    \* left it, with what the step did
  mounted,          \* HuggingFaceModelDownloader is mounted
  manager,          \* downloaderInstance, IndexedDBStorage.db, DownloadManager
                    \* and the callers of DownloadManager.init()
  win               \* useWindowControlStore and useWindowMode

vars == <<models, chunks, abortController, aborted, activeDownloads, now,
          sess, deletes, last, mounted, manager, win>>

\* ------------------------------------------------------ IndexedDBStorage
\* store.put(...) into 'chunks' (key [modelId, chunkIndex]).
storeModelChunk(ch, modelId, chunkIndex, chunk) ==
  [k \in DOMAIN ch \cup {<<modelId, chunkIndex>>} |->
     IF k = <<modelId, chunkIndex>> THEN chunk ELSE ch[k]]

\* The unique index 'filename' of 'models': put fails (ConstraintError) when
\* a record with another id has the same filename.
FilenameTaken(ms, model) ==
  \E i \in DOMAIN ms : i # model.id /\ ms[i].filename = model.filename

\* store.put(model) into 'models' (key id).
storeModelMetadata(ms, model) ==
  [k \in DOMAIN ms \cup {model.id} |-> IF k = model.id THEN model ELSE ms[k]]

getStoredModels(ms) == { ms[i] : i \in DOMAIN ms }

\* The chunk indices stored for modelId (index 'modelId', getAll).
ChunkIndices(ch, modelId) == { k[2] : k \in { x \in DOMAIN ch : x[1] = modelId } }

\* The decimal writing of a chunk index below 100.
Decimal(x) == IF x < 10 THEN <<x>> ELSE <<x \div 10, x % 10>>

\* a is before b in the order of strings.
LexicallyBefore(a, b) ==
  LET da == Decimal(a)
      db == Decimal(b)
  IN  IF da[1] # db[1] THEN da[1] < db[1]
      ELSE IF Len(da) # Len(db) THEN Len(da) < Len(db)
      ELSE Len(da) = 2 /\ da[2] < db[2]

RECURSIVE SortLexically(_)
SortLexically(S) ==
  IF S = {} THEN <<>>
  ELSE LET lo == CHOOSE x \in S : \A y \in S \ {x} : LexicallyBefore(x, y)
       IN  <<lo>> \o SortLexically(S \ {lo})

RECURSIVE SortAscending(_)
\* .sort((a, b) => a.chunkIndex - b.chunkIndex)
SortAscending(S) ==
  IF S = {} THEN <<>>
  ELSE LET lo == CHOOSE x \in S : \A y \in S : x <= y
       IN  <<lo>> \o SortAscending(S \ {lo})

getModelChunks(ch, modelId) ==
  LET order == SortAscending(ChunkIndices(ch, modelId))
  IN  [i \in 1..Len(order) |-> ch[<<modelId, order[i]>>]]

RECURSIVE Concat(_)
Concat(seqs) == IF seqs = <<>> THEN <<>> ELSE Head(seqs) \o Concat(Tail(seqs))

RECURSIVE TotalSize(_)
\* chunks.reduce((sum, chunk) => sum + chunk.length, 0)
TotalSize(seqs) ==
  IF seqs = <<>> THEN 0 ELSE Len(Head(seqs)) + TotalSize(Tail(seqs))

\* new Uint8Array(size): size bytes, all zero
ZeroByte == Byte("-", 0)
Uint8Array(size) == [i \in 1..size |-> ZeroByte]

\* modelData.set(chunk, offset)
SetAt(modelData, chunk, offset) ==
  [i \in 1..Len(modelData) |->
     IF i > offset /\ i <= offset + Len(chunk) THEN chunk[i - offset]
                                               ELSE modelData[i]]

RECURSIVE CombineOverlapping(_, _, _)
CombineOverlapping(modelData, seqs, offset) ==
  IF seqs = <<>> THEN modelData
  ELSE CombineOverlapping(SetAt(modelData, Head(seqs), offset), Tail(seqs), offset)

RECURSIVE Combine(_, _, _)
\* for (const chunk of chunks) { modelData.set(chunk, offset);
\*                               offset += chunk.length }
Combine(modelData, seqs, offset) ==
  IF seqs = <<>> THEN modelData
  ELSE Combine(SetAt(modelData, Head(seqs), offset), Tail(seqs),
               offset + Len(Head(seqs)))

getModelData(ch, modelId) ==
  LET cs == getModelChunks(ch, modelId)
  IN  Combine(Uint8Array(TotalSize(cs)), cs, 0)

deleteModelMetadataOnly(ms, ch, modelId) ==
  [models |-> [i \in DOMAIN ms \ {modelId} |-> ms[i]], chunks |-> ch]

\* One readwrite transaction over 'models' and 'chunks'.
deleteModel(ms, ch, modelId) ==
  [models |-> [i \in DOMAIN ms \ {modelId} |-> ms[i]],
   chunks |-> [k \in { x \in DOMAIN ch : x[1] # modelId } |-> ch[k]]]

\* navigator.storage.estimate(): usage || 0, quota || 0 ({0, 0} without the API).
getStorageUsage(usage, quota) == [used |-> usage, available |-> quota]

\* No estimate has been asked for.
NoEstimate == [used |-> -1, available |-> -1]

QuotaRejectsOffByOne(storageInfo, sizeBytes) ==
  storageInfo.available - storageInfo.used <= sizeBytes

\* if (storageInfo.available - storageInfo.used < modelInfo.sizeBytes) throw
QuotaRejects(storageInfo, sizeBytes) ==
  storageInfo.available - storageInfo.used < sizeBytes

ExistingModelNever(ms, modelInfo) == FALSE

\* existingModels.find(m => m.filename === modelInfo.filename)
ExistingModel(ms, modelInfo) ==
  \E m \in getStoredModels(ms) : m.filename = modelInfo.filename

TotalBytesDeclared(hasHeader, contentLength, sizeBytes) == sizeBytes

\* contentLength ? parseInt(contentLength, 10) : modelInfo.sizeBytes
TotalBytes(hasHeader, contentLength, sizeBytes) ==
  IF hasHeader THEN contentLength ELSE sizeBytes

\* ------------------------------------------------------ useDownloadsStore
DownloadId(filename, time) == <<filename, time>>

\* activeDownloads.value.set(downloadId, { id, modelInfo, progress: 0, startTime })
\* with downloadId = `${modelInfo.filename}-${Date.now()}`
startDownload(ad, n, time) ==
  LET id == DownloadId(Info(n).filename, time)
  IN  [k \in DOMAIN ad \cup {id} |->
         IF k = id
           THEN [id |-> id, modelInfo |-> n, progress |-> Num(0, 1),
                 startTime |-> time]
           ELSE ad[k]]

updateDownloadProgressUpsert(ad, downloadId, progress) ==
  [k \in DOMAIN ad \cup {downloadId} |->
     IF k = downloadId
       THEN [id |-> downloadId, modelInfo |-> "-", progress |-> progress,
             startTime |-> 0]
       ELSE ad[k]]

\* const download = activeDownloads.value.get(downloadId); if (download) ...
updateDownloadProgress(ad, downloadId, progress) ==
  IF downloadId \in DOMAIN ad
    THEN [ad EXCEPT ![downloadId].progress = progress]
    ELSE ad

completeDownload(ad, downloadId) == [k \in DOMAIN ad \ {downloadId} |-> ad[k]]

cancelDownload(ad, downloadId) == [k \in DOMAIN ad \ {downloadId} |-> ad[k]]

\* --------------------------------------------------------------- sessions
\* What fetch settles with: "aborted" and "error" are rejections, "notOk" a
\* response whose status is not 2xx, "noBody" and "ok" responses with
\* response.ok; present and length are its Content-Length header.
Response(status, present, length) ==
  [status |-> status, present |-> present, length |-> length]

NoResponse == Response("none", FALSE, 0)

IdleSession ==
  [ pc |-> "idle", model |-> "-", id |-> DownloadId("-", 0),
    existing |-> FALSE, signal |-> 0, listener |-> 0,
    totalBytes |-> 0, downloadedBytes |-> 0, currentChunk |-> <<>>,
    chunkIndex |-> 0, offset |-> 0, writeOk |-> TRUE, outcome |-> "none",
    \* history of the invocation
    \* hadRecord: the asset had a metadata record when the invocation began;
    \* cancelReq: its cancellation was requested while its transfer was under
    \* way; written: the chunks it has put; acked: the puts that have settled
    hadRecord |-> FALSE, cancelReq |-> FALSE, written |-> <<>>, acked |-> 0,
    lastPct |-> NoProgress,
    \* what the last step did
    did |-> {}, error |-> "",
    \* the host's storage estimate when the stored models were checked
    storage |-> NoEstimate,
    \* more than TIMEOUT_MS have passed since the read under way was begun
    stalled |-> FALSE,
    \* what fetch settled with, if the last step was its settlement
    response |-> NoResponse,
    \* let iterations = 0
    iterations |-> 0 ]

NoStep == [s |-> 0, rec |-> IdleSession, deleted |-> "-"]

Started(s)  == sess[s].pc # "idle"
Running(s)  == sess[s].pc \notin {"idle", "done"}
Settled(r)  == r.outcome # "none"

CancelledMessage == "Download cancelled by user"
QuotaMessage     == "Insufficient storage space"
TimeoutMessage   == "Download timeout - connection may be unstable"
NoBodyMessage    == "No response body available"
\* the message of the AbortError that an aborted fetch signal rejects with
AbortMessage     == "The user aborted a request."
IterationsMessage ==
  "Download failed - too many iterations, possible infinite loop"

\* The program points at which the transfer of an invocation is under way:
\* from the call of fetch to the settlement of the metadata write.
Transfer == {"fetch", "read", "store", "storeLast", "meta",
             "xhr", "xhrStore", "xhrMeta"}

\* A promise settles once; DownloadManager's then / catch both call
\* completeDownload, which is the session's terminal notification.
Settle(r, outcome, error) ==
  IF Settled(r) THEN r
  ELSE [r EXCEPT !.outcome = outcome, !.error = error, !.did = @ \cup {"settle"}]

\* The invocation has no code left to run.
Retire(r) == [r EXCEPT !.pc = "done"]

\* catch (error) of downloadModel: a message that includes 'cancelled' is
\* rethrown as it is, any other is wrapped into 'Download failed: ...'.
Throw(r, message) ==
  Retire(Settle(r, IF message = CancelledMessage THEN "cancelled" ELSE "failed",
                message))

\* onProgress?.({...}): the callback of DownloadManager.startDownload.
Emit(r, progress) ==
  [r EXCEPT !.lastPct = progress, !.did = @ \cup {"progress"}]

NextChunkIndexSame(chunkIndex) == chunkIndex

\* chunkIndex++
NextChunkIndex(chunkIndex) == chunkIndex + 1

\* storage.storeModelChunk(...) is called; ok tells whether the put succeeds.
IssueChunk(r, chunk, ok) ==
  [r EXCEPT !.writeOk = ok,
            !.written = IF ok THEN Append(@, chunk) ELSE @,
            !.did = @ \cup {"chunk"}]

\* storage.storeModelMetadata(...) is called.
IssueMetadata(r, ok) ==
  [r EXCEPT !.writeOk = ok, !.did = @ \cup {"metadata"}]

StoredModelDeclaredSize(r) ==
  [id |-> r.model, filename |-> Info(r.model).filename,
   size |-> Info(r.model).sizeBytes]

\* const storedModel: StoredModel = { ..., size: downloadedBytes, ... }
StoredModel(r) ==
  [id |-> r.model, filename |-> Info(r.model).filename, size |-> r.downloadedBytes]

CeilingReached(iterations) == iterations >= MAX_ITERATIONS

\* if (iterations > MAX_ITERATIONS)
CeilingExceeded(iterations) == iterations > MAX_ITERATIONS

\* Top of while (true): iterations++ and the check of the ceiling, the abort
\* check on this.abortController, the check
\* currentTime - lastProgressTime > TIMEOUT_MS (lastProgressTime is the
\* currentTime of the iteration that received the last range), then
\* reader.read() is awaited.
LoopHead(r) ==
  LET r1 == [r EXCEPT !.iterations = @ + 1]
  IN  IF CeilingExceeded(r1.iterations)
        THEN Throw(r1, IterationsMessage)
      ELSE IF abortController \in aborted
        THEN Throw(r1, CancelledMessage)
      ELSE IF r1.stalled
        THEN Throw(r1, TimeoutMessage)
        ELSE [r1 EXCEPT !.pc = "read"]

\* What is kept of an invocation after a step: of an ended invocation only
\* its asset and outcome; of one that awaits a rejected put no transfer state.
Kept(r) ==
  IF r.pc = "done"
    THEN [IdleSession EXCEPT !.pc = "done", !.model = r.model,
                             !.outcome = r.outcome]
  ELSE IF ~r.writeOk
    THEN [IdleSession EXCEPT !.pc = r.pc, !.model = r.model, !.id = r.id,
                             !.outcome = r.outcome, !.listener = r.listener,
                             !.cancelReq = r.cancelReq, !.writeOk = r.writeOk,
                             !.did = r.did]
    ELSE r

\* The record of an invocation when its next step begins.
Resume(r) == [r EXCEPT !.did = {}, !.error = "", !.response = NoResponse]

\* The last step is remembered when it ended the invocation.
Remembered(s, r) ==
  IF r.pc = "done" THEN [s |-> s, rec |-> r, deleted |-> "-"] ELSE NoStep

\* The session's record and the downloads store after one step of session s:
\* a progress event goes to updateDownloadProgress, a settled promise to
\* completeDownload.
Commit(s, r) ==
  LET ad1 == IF "progress" \in r.did
               THEN updateDownloadProgress(activeDownloads, r.id, r.lastPct)
               ELSE activeDownloads
      ad2 == IF "settle" \in r.did THEN completeDownload(ad1, r.id) ELSE ad1
  IN  /\ sess' = [sess EXCEPT ![s] = Kept(r)]
      /\ activeDownloads' = ad2
      /\ last' = Remembered(s, r)

\* ------------------------------------------------------- initialisation
\* A caller of DownloadManager: where it is in `await this.init()` and in
\* the store operation that follows, and what the operation answered.
\*   "idle"   it has not called yet
\*   "open"   init() awaits getHuggingFaceDownloader(), which awaits the
\*            indexedDB.open request of the instance it has made
\*   "got"    init() awaits getHuggingFaceDownloader(), which has returned
\*            the instance that was there
\*   "ready"  init() has resolved
\*   "failed" init() has rejected
\*   "done"   the store operation has been called
MaxCallers == 3

Callers == 1..MaxCallers

\* What the methods of DownloadManager call after `await this.init()`.
Operations == {"getStoredModels", "deleteModel", "getModelData", "downloadModel"}

NotInitializedMessage == "Database not initialized"

IdleCaller == [pc |-> "idle", op |-> "-", result |-> "-"]

\* let downloaderInstance = null; IndexedDBStorage.db = null;
\* DownloadManager.downloader = null, initialized = false.  open is the
\* state of the indexedDB.open request.
ManagerNew ==
  [downloaderInstance |-> FALSE, db |-> FALSE, open |-> "none",
   downloader |-> FALSE, initialized |-> FALSE,
   callers |-> [c \in Callers |-> IdleCaller]]

\* After one init() on its own: the state in which downloads are made.
ManagerReady ==
  [downloaderInstance |-> TRUE, db |-> TRUE, open |-> "done",
   downloader |-> TRUE, initialized |-> TRUE,
   callers |-> [c \in Callers |-> IdleCaller]]

\* ------------------------------------------------------------ the window
MaxSetups   == 2      \* calls of useWindowMode.setup() in one behaviour
MaxCleanups == 2      \* calls of useWindowMode.cleanup() in one behaviour

Setups == 1..MaxSetups

\* The events of the window mode, in the order setup() listens to them.
MoveEvent   == "tauri-main:main:window-mode:move"
ResizeEvent == "tauri-main:main:window-mode:resize"
FadeEvent   == "tauri-main:main:window-mode:fade-on-hover"
Events      == <<MoveEvent, ResizeEvent, FadeEvent>>

\* The refs of useWindowControlStore and of useWindowMode as they are made.
\*   listeners  the listeners registered with the backend, each named by
\*              the setup() call that made it and its event
\*   setups     where each setup() call is: "idle", awaiting the listen of
\*              an event (the event's name), or "done"
\*   started    whether the last step called startClickThrough(), and with
\*              which isControlActive: "no", "inactive", "active"
WindowNew ==
  [controlMode |-> "NONE", isControlActive |-> FALSE,
   isIgnoringMouseEvent |-> TRUE,
   isSetup |-> FALSE, unlistenFuncs |-> <<>>, listeners |-> {},
   setups |-> [i \in Setups |-> "idle"], cleanups |-> 0,
   started |-> "no"]

\* The downloader, the stores and the component before the first download.
DownloadsInit ==
  /\ models = << >>
  /\ chunks = << >>
  /\ abortController = 0
  /\ aborted = {}
  /\ activeDownloads = << >>
  /\ now = 0
  /\ sess = [s \in Sessions |-> IdleSession]
  /\ deletes = 0
  /\ last = NoStep
  /\ mounted = TRUE

Init ==
  /\ DownloadsInit
  /\ manager = ManagerReady
  /\ win = WindowNew

\* DownloadManager.startDownload(modelInfo): downloadsStore.startDownload and
\* the synchronous head of downloadModel (new AbortController, the
\* getStoredModels transaction).
StartDownload(n) ==
  \E s \in Sessions, t \in now..MaxClock :
    /\ sess[s].pc = "idle"
    /\ \A u \in 1..(s - 1) : Started(u)
    \* the first call fixes the origin of the clock and of the catalogue
    /\ s = 1 => t = 0 /\ n = "m1"
    \* the time of the call tells two downloads of one file apart and does
    \* nothing else: it is let pass only when such a download is running
    /\ t # now => \E u \in Sessions :
                    /\ Running(u)
                    /\ Info(sess[u].model).filename = Info(n).filename
    /\ now' = t
    /\ LET id == DownloadId(Info(n).filename, t)
       IN  /\ activeDownloads' = startDownload(activeDownloads, n, t)
           /\ sess' = [sess EXCEPT ![s] =
                [IdleSession EXCEPT !.pc = "check", !.model = n, !.id = id,
                    !.existing = ExistingModel(models, Info(n)),
                    !.hadRecord = n \in DOMAIN models]]
    /\ abortController' = s
    /\ last' = NoStep
    /\ UNCHANGED <<models, chunks, aborted, deletes, mounted, manager, win>>

\* getStoredModels() has resolved: the asset is already downloaded, or
\* getStorageUsage() is called and answers with the host's estimate.
CheckDone(s) ==
  /\ sess[s].pc = "check"
  /\ \E usage \in Usages, quota \in Quotas :
       LET r == [Resume(sess[s]) EXCEPT !.storage = getStorageUsage(usage, quota)]
       IN  IF r.existing
             THEN Commit(s, Retire(Settle(Emit(r, Num(100, 1)), "completed", "")))
             ELSE Commit(s, [r EXCEPT !.pc = "quota"])
  /\ UNCHANGED <<models, chunks, abortController, aborted, now, deletes, mounted, manager, win>>

\* downloadWithXHR is entered: the abort listener is registered on the
\* current controller (it never fires for a signal that is already aborted)
\* and xhr.send() is called.
StartXHR(r) ==
  [r EXCEPT !.pc = "xhr", !.did = @ \cup {"request"}, !.signal = 0,
            !.listener = IF abortController # 0 /\ abortController \notin aborted
                           THEN abortController ELSE 0]

\* getStorageUsage() has resolved: the quota check, then fetch is called.
QuotaDone(s) ==
  /\ sess[s].pc = "quota"
  /\ LET r == Resume(sess[s])
     IN  IF QuotaRejects(r.storage, Info(r.model).sizeBytes)
           THEN Commit(s, Throw(r, QuotaMessage))
           ELSE Commit(s, [Emit(r, Num(0, 1)) EXCEPT
                             !.pc = "fetch", !.did = @ \cup {"request"},
                             !.signal = abortController,
                             !.storage = NoEstimate])
  /\ UNCHANGED <<models, chunks, abortController, aborted, now, deletes, mounted, manager, win>>

\* fetch(...) has settled.
FetchDone(s) ==
  /\ sess[s].pc = "fetch"
  /\ LET r == Resume(sess[s])
         settled(status) == [r EXCEPT !.response = Response(status, FALSE, 0)]
     IN  IF r.signal \in aborted
           THEN \* rejected with AbortError: caught, useXHR = true
                Commit(s, StartXHR(settled("aborted")))
           ELSE \/ \* network error: caught, useXHR = true
                   Commit(s, StartXHR(settled("error")))
                \/ \* !response.ok: thrown and caught, useXHR = true
                   Commit(s, StartXHR(settled("notOk")))
                \/ \* response.ok, response.body is null
                   Commit(s, Throw(settled("noBody"), NoBodyMessage))
                \/ \E hasHeader \in BOOLEAN, contentLength \in ContentLengths :
                     /\ hasHeader \/ contentLength = 0
                     /\ Commit(s, LoopHead(
                          [Emit(r, Num(0, 1)) EXCEPT
                             !.response = Response("ok", hasHeader, contentLength),
                             !.totalBytes =
                               TotalBytes(hasHeader, contentLength,
                                          Info(r.model).sizeBytes)]))
  /\ UNCHANGED <<models, chunks, abortController, aborted, now, deletes, mounted, manager, win>>

AccumulateReversed(currentChunk, value) == value \o currentChunk

\* newChunk.set(currentChunk); newChunk.set(value, currentChunk.length)
Accumulate(currentChunk, value) == currentChunk \o value

\* The next len bytes of the body after the first downloaded ones.
Range(n, downloaded, len) == [p \in 1..len |-> Byte(n, downloaded + p)]

\* await this.storage.storeModelChunk(modelInfo.name, chunkIndex, chunk)
WriteChunk(s, r, chunk, pc) ==
  \E ok \in BOOLEAN :
    /\ chunks' = IF ok THEN storeModelChunk(chunks, r.model, r.chunkIndex, chunk)
                       ELSE chunks
    /\ models' = models
    /\ Commit(s, [IssueChunk(r, chunk, ok) EXCEPT !.pc = pc])

\* await this.storage.storeModelMetadata(storedModel)
WriteMetadata(s, r, pc) ==
  \E ok \in BOOLEAN :
    /\ ok => ~FilenameTaken(models, StoredModel(r))
    /\ models' = IF ok THEN storeModelMetadata(models, StoredModel(r)) ELSE models
    /\ chunks' = chunks
    /\ Commit(s, [IssueMetadata(r, ok) EXCEPT !.pc = pc])

LastChunkForgotten(currentChunk) == FALSE

\* if (currentChunk.length > 0)
LastChunkPending(currentChunk) == Len(currentChunk) > 0

\* After the loop: the last chunk if it has data, then the metadata.
StreamEnd(s, r) ==
  IF LastChunkPending(r.currentChunk)
    THEN WriteChunk(s, r, r.currentChunk, "storeLast")
    ELSE WriteMetadata(s, r, "meta")

\* The lengths of the value one reader.read() of session s delivers. An
\* empty value is delivered only to a download that runs alone: next to
\* another download it changes nothing but the iteration count.
RangeLengths(s) ==
  IF \E u \in Sessions \ {s} : Running(u) THEN 1..MaxRange ELSE 0..MaxRange

\* reader.read() has settled.
ReadDone(s) ==
  /\ sess[s].pc = "read"
  /\ LET r == Resume(sess[s])
     IN  IF r.signal \in aborted
           THEN \* the body stream is errored by the abort: read() rejects
                /\ Commit(s, Throw(r, AbortMessage))
                /\ UNCHANGED <<models, chunks>>
           ELSE \/ \* read() rejects: network error
                   /\ Commit(s, Throw(r, "network error"))
                   /\ UNCHANGED <<models, chunks>>
                \/ \* done
                   /\ r.downloadedBytes \in BodyLengths
                   /\ StreamEnd(s, r)
                \/ \E len \in RangeLengths(s) :
                     \* Content-Length: 0 announces an empty body
                     /\ r.totalBytes # 0
                     /\ r.downloadedBytes + len <= MaxBody
                     /\ LET r1 == [r EXCEPT
                              !.currentChunk = Accumulate(@,
                                  Range(r.model, r.downloadedBytes, len)),
                              !.downloadedBytes = @ + len]
                        IN  IF Len(r1.currentChunk) >= CHUNK_SIZE
                              THEN WriteChunk(s, r1, r1.currentChunk, "store")
                              ELSE /\ Commit(s, LoopHead(Emit(r1,
                                        Percent(r1.downloadedBytes, r1.totalBytes))))
                                   /\ UNCHANGED <<models, chunks>>
  /\ UNCHANGED <<abortController, aborted, now, deletes, mounted, manager, win>>

\* TIMEOUT_MS pass while reader.read() is pending. A read is let stall
\* only in a download that runs alone: the timeout is a matter of one
\* download and its clock.
Stall(s) ==
  /\ sess[s].pc = "read"
  /\ ~sess[s].stalled
  /\ \A u \in Sessions \ {s} : ~Running(u)
  /\ sess' = [sess EXCEPT ![s].stalled = TRUE]
  /\ last' = NoStep
  /\ UNCHANGED <<models, chunks, abortController, aborted, activeDownloads,
                 now, deletes, mounted, manager, win>>

\* storeModelChunk of a full chunk has settled: chunkIndex++, a new
\* currentChunk, the progress event, the next iteration.
StoreDone(s) ==
  /\ sess[s].pc = "store"
  /\ LET r == Resume(sess[s])
     IN  IF r.writeOk
           THEN LET r1 == [r EXCEPT !.chunkIndex = NextChunkIndex(@),
                                    !.currentChunk = <<>>,
                                    !.acked = @ + 1]
                IN  Commit(s, LoopHead(Emit(r1,
                        Percent(r1.downloadedBytes, r1.totalBytes))))
           ELSE Commit(s, Throw(r, "storage error"))
  /\ UNCHANGED <<models, chunks, abortController, aborted, now, deletes, mounted, manager, win>>

\* storeModelChunk of the last chunk has settled: the metadata is stored.
StoreLastDone(s) ==
  /\ sess[s].pc = "storeLast"
  /\ LET r == Resume(sess[s])
     IN  IF r.writeOk
           THEN WriteMetadata(s, [r EXCEPT !.acked = @ + 1], "meta")
           ELSE /\ Commit(s, Throw(r, "storage error"))
                /\ UNCHANGED <<models, chunks>>
  /\ UNCHANGED <<abortController, aborted, now, deletes, mounted, manager, win>>

\* storeModelMetadata has settled: the 100% event, downloadModel resolves.
MetaDone(s) ==
  /\ sess[s].pc = "meta"
  /\ LET r == Resume(sess[s])
     IN  IF r.writeOk
           THEN Commit(s, Retire(Settle(Emit(r, Num(100, 1)), "completed", "")))
           ELSE Commit(s, Throw(r, "storage error"))
  /\ UNCHANGED <<models, chunks, abortController, aborted, now, deletes, mounted, manager, win>>

\* ------------------------------------------------------- downloadWithXHR
\* The number p is not below the number q.
NotBelow(p, q) ==
  p.kind = "num" /\ q.kind = "num" /\ p.num * q.den >= q.num * p.den

\* xhr.onprogress with lengthComputable (total is not 0); event.loaded
\* never decreases from one event to the next.
XhrProgress(s) ==
  /\ sess[s].pc = "xhr"
  /\ \E total \in ContentLengths \ {0} :
       \E loaded \in 0..total :
         /\ NotBelow(Percent(loaded, total), sess[s].lastPct)
         /\ Commit(s, Emit(Resume(sess[s]), Percent(loaded, total)))
  /\ UNCHANGED <<models, chunks, abortController, aborted, now, deletes, mounted, manager, win>>

\* for (let i = 0; i < data.length; i += chunkSize): the loop test, then
\* either the next slice is stored or, after the loop, the metadata.
XhrLoop(s, r) ==
  IF r.offset < r.downloadedBytes
    THEN WriteChunk(s, r, Slice(Body(r.model, r.downloadedBytes), r.offset,
                                r.offset + CHUNK_SIZE), "xhrStore")
    ELSE WriteMetadata(s, r, "xhrMeta")

\* xhr.onload: data = new Uint8Array(xhr.response)
XhrLoad(s) ==
  /\ sess[s].pc = "xhr"
  /\ LET r == Resume(sess[s])
     IN  \/ \* xhr.status is not 200
            /\ Commit(s, Retire(Settle(r, "failed", "XHR download failed")))
            /\ UNCHANGED <<models, chunks>>
         \/ \E len \in BodyLengths :
              XhrLoop(s, [r EXCEPT !.downloadedBytes = len, !.offset = 0,
                                   !.chunkIndex = 0])
  /\ UNCHANGED <<abortController, aborted, now, deletes, mounted, manager, win>>

\* xhr.onerror, xhr.ontimeout
XhrError(s) ==
  /\ sess[s].pc = "xhr"
  /\ Commit(s, Retire(Settle(Resume(sess[s]), "failed",
                              "XHR network error occurred")))
  /\ UNCHANGED <<models, chunks, abortController, aborted, now, deletes, mounted, manager, win>>

\* storeModelChunk inside onload has settled.
XhrStoreDone(s) ==
  /\ sess[s].pc = "xhrStore"
  /\ LET r == Resume(sess[s])
     IN  IF r.writeOk
           THEN XhrLoop(s, [r EXCEPT !.chunkIndex = NextChunkIndex(@),
                                     !.acked = @ + 1,
                                     !.offset = @ + CHUNK_SIZE])
           ELSE /\ Commit(s, Retire(Settle(r, "failed",
                                 "Failed to store downloaded data")))
                /\ UNCHANGED <<models, chunks>>
  /\ UNCHANGED <<abortController, aborted, now, deletes, mounted, manager, win>>

\* storeModelMetadata inside onload has settled: the 100% event, resolve().
XhrMetaDone(s) ==
  /\ sess[s].pc = "xhrMeta"
  /\ LET r == Resume(sess[s])
     IN  IF r.writeOk
           THEN Commit(s, Retire(Settle(Emit(r, Num(100, 1)), "completed", "")))
           ELSE Commit(s, Retire(Settle(r, "failed",
                             "Failed to store downloaded data")))
  /\ UNCHANGED <<models, chunks, abortController, aborted, now, deletes, mounted, manager, win>>

\* ------------------------------------------------------- DownloadManager
\* DownloadManager.cancelDownload(downloadId): downloader.cancelDownload()
\* aborts the current controller, whose abort listeners run (xhr.abort(),
\* reject), then downloadsStore.cancelDownload(downloadId).
CancelDownload(id) ==
  /\ id \in DOMAIN activeDownloads
  /\ LET c        == abortController
         fires(s) == c # 0 /\ c \notin aborted /\ sess[s].listener = c
         asked(s) == sess[s].id = id /\ Running(s)
         next(s)  ==
           LET r0 == IF asked(s)
                       THEN [Resume(sess[s]) EXCEPT
                               !.cancelReq = sess[s].pc \in Transfer,
                               !.did = {"cancel"}]
                     ELSE IF fires(s)
                       THEN [Resume(sess[s]) EXCEPT !.did = {"cancel"}]
                       ELSE sess[s]
               r1 == [r0 EXCEPT !.listener = 0,
                        !.outcome = IF @ = "none" THEN "cancelled" ELSE @]
           IN  IF fires(s)
                 THEN IF r0.pc = "xhr" THEN Kept(Retire(r1)) ELSE r1
                 ELSE r0
         gone == {id} \cup { sess[s].id : s \in { u \in Sessions :
                                fires(u) /\ ~Settled(sess[u]) } }
     IN  /\ aborted' = IF c = 0 THEN aborted ELSE aborted \cup {c}
         /\ sess' = [s \in Sessions |-> next(s)]
         /\ activeDownloads' =
              [k \in DOMAIN activeDownloads \ gone |-> activeDownloads[k]]
  /\ last' = NoStep
  /\ UNCHANGED <<models, chunks, abortController, now, deletes, mounted, manager, win>>

\* DownloadManager.deleteModel(modelId)
DeleteModel(n) ==
  /\ deletes < MaxDeletes
  /\ n \in DOMAIN models \/ ChunkIndices(chunks, n) # {}
  /\ LET d == deleteModel(models, chunks, n)
     IN  /\ models' = d.models
         /\ chunks' = d.chunks
  /\ deletes' = deletes + 1
  /\ last' = [NoStep EXCEPT !.deleted = n]
  /\ UNCHANGED <<abortController, aborted, activeDownloads, now, sess, mounted, manager, win>>

\* Every step but the start of a download.
Step ==
  \/ \E n \in Names : DeleteModel(n)
  \/ \E id \in DOMAIN activeDownloads : CancelDownload(id)
  \/ \E s \in Sessions : CheckDone(s)
  \/ \E s \in Sessions : QuotaDone(s)
  \/ \E s \in Sessions : FetchDone(s)
  \/ \E s \in Sessions : ReadDone(s)
  \/ \E s \in Sessions : Stall(s)
  \/ \E s \in Sessions : StoreDone(s)
  \/ \E s \in Sessions : StoreLastDone(s)
  \/ \E s \in Sessions : MetaDone(s)
  \/ \E s \in Sessions : XhrProgress(s)
  \/ \E s \in Sessions : XhrLoad(s)
  \/ \E s \in Sessions : XhrError(s)
  \/ \E s \in Sessions : XhrStoreDone(s)
  \/ \E s \in Sessions : XhrMetaDone(s)

Next ==
  \/ \E n \in Names : StartDownload(n)
  \/ Step

Spec == Init /\ [][Next]_vars

\* useDownloadsStore.hasActiveDownloads
hasActiveDownloads == DOMAIN activeDownloads # {}

\* downloadModel(model) of the component HuggingFaceModelDownloader:
\* if (isDownloading.value) return, then downloadManager.startDownload(model)
ComponentDownload(n) ==
  /\ mounted
  /\ ~hasActiveDownloads
  /\ StartDownload(n)

\* The program when every download is started through the component.
NextComponent ==
  \/ \E n \in Names : ComponentDownload(n)
  \/ Step

SpecComponent == Init /\ [][NextComponent]_vars

\* ------------------------------------------- the component's lifetime
UnmountAborting ==
  /\ mounted
  /\ mounted' = FALSE
  /\ aborted' = IF abortController = 0 THEN aborted
                                       ELSE aborted \cup {abortController}
  /\ last' = NoStep
  /\ UNCHANGED <<models, chunks, abortController, activeDownloads, now, sess,
                 deletes, manager, win>>

\* onBeforeUnmount(() => {}): the download goes on in the background.
Unmount ==
  /\ mounted
  /\ mounted' = FALSE
  /\ last' = NoStep
  /\ UNCHANGED <<models, chunks, abortController, aborted, activeDownloads,
                 now, sess, deletes, manager, win>>

\* onMounted: downloadManager.init() (the downloader exists already) and
\* loadDownloadedModels(), which reads 'models' into the component.
Mount ==
  /\ ~mounted
  /\ mounted' = TRUE
  /\ last' = NoStep
  /\ UNCHANGED <<models, chunks, abortController, aborted, activeDownloads,
                 now, sess, deletes, manager, win>>

NextLifetime ==
  \/ \E n \in Names : ComponentDownload(n)
  \/ Step
  \/ Mount
  \/ Unmount

\* Downloads started through the component, which is mounted and unmounted.
SpecLifetime == Init /\ [][NextLifetime]_vars

\* ------------------------------------------------------ one download
\* The first call of DownloadManager.startDownload, and no other.
FirstDownload(n) ==
  /\ sess[1].pc = "idle"
  /\ StartDownload(n)

NextStall ==
  \/ \E n \in Names : FirstDownload(n)
  \/ Step

\* What runs without the network: the continuations of the IndexedDB
\* requests and of getStorageUsage(), and the passing of time.  fetch,
\* reader.read() and the XMLHttpRequest events come when the network
\* delivers them, if ever; a fetch or a read whose signal is aborted is
\* rejected at once.
FairStall ==
  \A s \in Sessions :
    /\ WF_vars(sess[s].signal \in aborted /\ FetchDone(s))
    /\ WF_vars(sess[s].signal \in aborted /\ ReadDone(s))
    /\ WF_vars(CheckDone(s))
    /\ WF_vars(QuotaDone(s))
    /\ WF_vars(Stall(s))
    /\ WF_vars(StoreDone(s))
    /\ WF_vars(StoreLastDone(s))
    /\ WF_vars(MetaDone(s))
    /\ WF_vars(XhrStoreDone(s))
    /\ WF_vars(XhrMetaDone(s))

SpecStall == Init /\ [][NextStall]_vars /\ FairStall

\* ---------------------------------------------------- the chunk store
\* Chunk indices and chunk contents the store is exercised with.
StoreIndices == {0, 1, 2, 10}
StoreData    == { <<Byte("x", 1)>>, <<Byte("y", 1), Byte("y", 2)>> }

\* storage.storeModelChunk(modelId, chunkIndex, chunk), by any caller
PutChunk(n, i, d) ==
  /\ chunks' = storeModelChunk(chunks, n, i, d)
  /\ last' = NoStep
  /\ UNCHANGED <<models, abortController, aborted, activeDownloads, now, sess,
                 deletes, mounted, manager, win>>

NextStore ==
  \/ \E n \in Names, i \in StoreIndices, d \in StoreData : PutChunk(n, i, d)
  \/ \E n \in Names : DeleteModel(n)

\* IndexedDBStorage on its own: chunks put in any order, and deleted.
SpecStore == Init /\ [][NextStore]_vars

\* ------------------------------------------- descriptors of any kind
\* The ModelInfo values downloadModel may be called with: every pairing of
\* an identifier (name) with a filename, so that two assets may share one.
Filenames == { m.filename : m \in Models }

Descriptors ==
  { [name |-> n, filename |-> f, sizeBytes |-> Info(n).sizeBytes] :
      n \in Names, f \in Filenames }

\* storage.storeModelMetadata({ id: modelInfo.name, filename, size }): the
\* record that a download of descriptor d writes when it has received size
\* bytes.
PutMetadata(d, size) ==
  LET model == [id |-> d.name, filename |-> d.filename, size |-> size]
  IN  /\ ~FilenameTaken(models, model)
      /\ models' = storeModelMetadata(models, model)
      /\ last' = NoStep
      /\ UNCHANGED <<chunks, abortController, aborted, activeDownloads, now,
                     sess, deletes, mounted, manager, win>>

\* downloader.downloadModel(d): new AbortController, the getStoredModels
\* transaction and the search of its result for the descriptor's filename.
\* What follows the quota check is not followed here: the next call takes
\* the place of the invocation.
DownloadDescriptor(d) ==
  /\ sess[1].pc \in {"idle", "done", "quota"}
  /\ sess' = [sess EXCEPT ![1] =
       [IdleSession EXCEPT !.pc = "check", !.model = d.name,
                           !.id = DownloadId(d.filename, now),
                           !.existing = ExistingModel(models, d),
                           !.hadRecord = d.name \in DOMAIN models]]
  /\ abortController' = 1
  /\ last' = NoStep
  /\ UNCHANGED <<models, chunks, aborted, activeDownloads, now, deletes,
                 mounted, manager, win>>

NextCatalogue ==
  \/ \E d \in Descriptors, size \in BodyLengths : PutMetadata(d, size)
  \/ \E d \in Descriptors : DownloadDescriptor(d)
  \/ \E n \in Names : DeleteModel(n)
  \/ CheckDone(1)

\* The already-downloaded check of downloadModel over a store that holds
\* the records of any descriptors.
SpecCatalogue == Init /\ [][NextCatalogue]_vars

\* ------------------------------------------------- the downloads store
\* The session ids the store may be called with, and the percentages of the
\* progress events it is given.
StoreIds      == { DownloadId(f, time) : f \in Filenames, time \in 0..MaxClock }
StoreProgress == { Num(50, 1), Num(100, 1) }

\* downloadsStore.startDownload(modelInfo) at time Date.now()
StoreStart(n) ==
  \E time \in now..MaxClock :
    /\ activeDownloads' = startDownload(activeDownloads, n, time)
    /\ now' = time
    /\ last' = NoStep
    /\ UNCHANGED <<models, chunks, abortController, aborted, sess, deletes,
                   mounted, manager, win>>

\* downloadsStore.updateDownloadProgress(downloadId, progress)
StoreUpdate(id, progress) ==
  /\ activeDownloads' = updateDownloadProgress(activeDownloads, id, progress)
  /\ last' = NoStep
  /\ UNCHANGED <<models, chunks, abortController, aborted, now, sess, deletes,
                 mounted, manager, win>>

\* downloadsStore.completeDownload(downloadId)
StoreComplete(id) ==
  /\ activeDownloads' = completeDownload(activeDownloads, id)
  /\ last' = NoStep
  /\ UNCHANGED <<models, chunks, abortController, aborted, now, sess, deletes,
                 mounted, manager, win>>

\* downloadsStore.cancelDownload(downloadId)
StoreCancel(id) ==
  /\ activeDownloads' = cancelDownload(activeDownloads, id)
  /\ last' = NoStep
  /\ UNCHANGED <<models, chunks, abortController, aborted, now, sess, deletes,
                 mounted, manager, win>>

NextDownloads ==
  \/ \E n \in Names : StoreStart(n)
  \/ \E id \in StoreIds, progress \in StoreProgress : StoreUpdate(id, progress)
  \/ \E id \in StoreIds : StoreComplete(id)
  \/ \E id \in StoreIds : StoreCancel(id)

\* useDownloadsStore on its own, called with any ids in any order.
SpecDownloads == Init /\ [][NextDownloads]_vars

\* --------------------------------------- DownloadManager.init(), raced
\* The variables of the downloads, which initialisation leaves alone.
downloadVars == <<models, chunks, abortController, aborted, activeDownloads,
                  now, sess, deletes, last, mounted>>

SetCaller(c, pc) == [manager EXCEPT !.callers[c].pc = pc]

\* A method of DownloadManager is called: `await this.init()`.  When
\* initialized is not set init() calls getHuggingFaceDownloader(), which
\* makes the instance and calls its init() (indexedDB.open) if there is
\* none, and returns the one there is otherwise.
ManagerInit(c) ==
  /\ manager.callers[c].pc = "idle"
  /\ manager' =
       IF manager.initialized
         THEN SetCaller(c, "ready")
       ELSE IF ~manager.downloaderInstance
         THEN [SetCaller(c, "open") EXCEPT !.downloaderInstance = TRUE,
                                           !.open = "pending"]
         ELSE SetCaller(c, "got")
  /\ UNCHANGED <<downloadVars, win>>

\* request.onsuccess: this.db = request.result, storage.init() resolves,
\* getHuggingFaceDownloader() returns and init() sets downloader and
\* initialized.  request.onerror: the rejection goes up to the caller; the
\* instance stays in downloaderInstance.
OpenDone(c) ==
  /\ manager.callers[c].pc = "open"
  /\ \/ manager' = [SetCaller(c, "ready") EXCEPT !.db = TRUE, !.open = "done",
                                                !.downloader = TRUE,
                                                !.initialized = TRUE]
     \/ manager' = [SetCaller(c, "failed") EXCEPT !.open = "failed"]
  /\ UNCHANGED <<downloadVars, win>>

\* getHuggingFaceDownloader() has returned the instance that was there:
\* this.downloader = ..., this.initialized = true.
GotDownloader(c) ==
  /\ manager.callers[c].pc = "got"
  /\ manager' = [SetCaller(c, "ready") EXCEPT !.downloader = TRUE,
                                              !.initialized = TRUE]
  /\ UNCHANGED <<downloadVars, win>>

\* if (!this.db) throw new Error('Database not initialized'), the first
\* statement of every operation of IndexedDBStorage.
StoreAnswer(m) == IF m.db THEN "ok" ELSE NotInitializedMessage

\* The operation that the caller's method makes once init() has resolved.
StoreOperation(c, op) ==
  /\ manager.callers[c].pc = "ready"
  /\ manager' = [manager EXCEPT !.callers[c] =
                   [pc |-> "done", op |-> op, result |-> StoreAnswer(manager)]]
  /\ UNCHANGED <<downloadVars, win>>

\* The caller's method has returned; it may call again.
CallerReturns(c) ==
  /\ manager.callers[c].pc \in {"done", "failed"}
  /\ manager' = [manager EXCEPT !.callers[c] = IdleCaller]
  /\ UNCHANGED <<downloadVars, win>>

InitBoot ==
  /\ DownloadsInit
  /\ manager = ManagerNew
  /\ win = WindowNew

NextInit ==
  \/ \E c \in Callers : ManagerInit(c)
  \/ \E c \in Callers : OpenDone(c)
  \/ \E c \in Callers : GotDownloader(c)
  \/ \E c \in Callers, op \in Operations : StoreOperation(c, op)
  \/ \E c \in Callers : CallerReturns(c)

\* The page has loaded and nothing is initialised; callers of
\* DownloadManager come in any order.
SpecInit == InitBoot /\ [][NextInit]_vars

\* ------------------------------------------------------ the window mode
\* The window's state when a step begins.
Window == [win EXCEPT !.started = "no"]

\* await startClickThrough() is called.
StartClickThrough(w) ==
  [w EXCEPT !.started = IF w.isControlActive \/ @ = "active"
                          THEN "active" ELSE "inactive"]

\* useWindowControlStore.toggleMode(mode), up to its await.
toggleMode(w, mode) ==
  IF w.isControlActive
    THEN \* deactivating
         LET w1 == [w EXCEPT !.controlMode = "NONE", !.isControlActive = FALSE]
         IN  IF w1.isIgnoringMouseEvent THEN StartClickThrough(w1) ELSE w1
    ELSE \* activating: await stopClickThrough()
         [w EXCEPT !.controlMode = mode, !.isControlActive = TRUE]

\* The listener of fade-on-hover, up to its await.
FadeOnHover(w) ==
  LET w1 == [w EXCEPT !.isIgnoringMouseEvent = ~@]
  IN  IF w1.isIgnoringMouseEvent THEN StartClickThrough(w1) ELSE w1

\* The listener that setup() registers for event e.
Listener(w, e) ==
  IF e = MoveEvent THEN toggleMode(w, "MOVE")
  ELSE IF e = ResizeEvent THEN toggleMode(w, "RESIZE")
  ELSE FadeOnHover(w)

\* The listeners registered for event e.
ListenersOf(w, e) == { l \in w.listeners : l[2] = e }

RECURSIVE Dispatch(_, _, _)
\* Event e is delivered to n listeners, one after the other.
Dispatch(w, e, n) == IF n = 0 THEN w ELSE Dispatch(Listener(w, e), e, n - 1)

\* The backend emits event e.
Handle(e) ==
  /\ ListenersOf(win, e) # {}
  /\ win' = Dispatch(Window, e, Cardinality(ListenersOf(win, e)))
  /\ UNCHANGED <<downloadVars, manager>>

\* useWindowMode.setup() is called: if (isSetup.value) return;
\* isSetup.value = true; listen(move) is called and awaited.
Setup(i) ==
  /\ win.setups[i] = "idle"
  /\ \A j \in 1..(i - 1) : win.setups[j] # "idle"
  /\ win' = IF win.isSetup
              THEN [Window EXCEPT !.setups[i] = "done"]
              ELSE [Window EXCEPT !.isSetup = TRUE, !.setups[i] = Events[1]]
  /\ UNCHANGED <<downloadVars, manager>>

\* A listen(...) of setup() call i has resolved: the listener is
\* registered, its unlisten function is pushed, and the next listen is
\* called or setup() returns.
ListenDone(i) ==
  /\ \E k \in DOMAIN Events :
       /\ win.setups[i] = Events[k]
       /\ win' = [Window EXCEPT
                    !.listeners = @ \cup {<<i, Events[k]>>},
                    !.unlistenFuncs = Append(@, <<i, Events[k]>>),
                    !.setups[i] = IF k < Len(Events) THEN Events[k + 1]
                                                     ELSE "done"]
  /\ UNCHANGED <<downloadVars, manager>>

\* unlistenFuncs.value.forEach(unlisten => unlisten());
\* unlistenFuncs.value.length = 0; isSetup.value = false
cleanup(w) ==
  [w EXCEPT !.listeners = @ \ { w.unlistenFuncs[k] : k \in DOMAIN w.unlistenFuncs },
            !.unlistenFuncs = <<>>,
            !.isSetup = FALSE]

\* useWindowMode.cleanup() is called.
Cleanup ==
  /\ win.cleanups < MaxCleanups
  /\ win' = [cleanup(Window) EXCEPT !.cleanups = @ + 1]
  /\ UNCHANGED <<downloadVars, manager>>

NextWindow ==
  \/ \E i \in Setups : Setup(i)
  \/ \E i \in Setups : ListenDone(i)
  \/ Cleanup
  \/ \E k \in DOMAIN Events : Handle(Events[k])

\* The window stores: setup() and cleanup() called in any order, and the
\* events of the window mode emitted at any time.
SpecWindow == Init /\ [][NextWindow]_vars

\* ================================================================== claims
\* The records the claims speak of: every invocation as its last step left
\* it, and the invocation that ended with the last step.
Records == { sess[s] : s \in Sessions } \cup { last.rec }

\* C1: single-flight.  While a download of an asset is under way, a second
\* start for the same asset creates no second download: two invocations for
\* the same asset never both put chunks.
C1_SingleFlight ==
  \A s, u \in Sessions :
    s # u /\ sess[s].model = sess[u].model /\ sess[s].written # <<>>
      => sess[u].written = <<>>

\* C2: byte-exact reassembly.  Whenever an asset has a metadata record,
\* getModelData returns exactly the bytes of the transfer that wrote the
\* record, the first size bytes of the asset, whatever attempts came before
\* (checked for downloads started through the component, which starts none
\* while the downloads store holds one).
C2_ByteExactReassembly ==
  \A n \in DOMAIN models : getModelData(chunks, n) = Body(n, models[n].size)

\* C3: for the ranges one invocation receives, the chunks it has put when
\* it stores the metadata, concatenated in index order, are the received
\* bytes in their order, and no chunk it puts is empty.
C3_ChunksAreTheRanges ==
  \A r \in Records :
    /\ \A i \in 1..Len(r.written) : r.written[i] # <<>>
    /\ (r.pc \in {"meta", "xhrMeta"} /\ r.writeOk) \/ r.outcome = "completed"
         => Concat(r.written) = Body(r.model, r.downloadedBytes)

\* A streaming invocation is about to finish with a chunk that two ranges
\* made, longer than CHUNK_SIZE.
C3_Witness ==
  \E s \in Sessions :
    /\ sess[s].pc = "meta" /\ sess[s].writeOk
    /\ sess[s].written # <<>> /\ Len(sess[s].written[1]) > CHUNK_SIZE

\* C4: a download of an asset that has a metadata record when it is started
\* ends with its first step: the 100% event is emitted, no request is issued
\* and nothing is put into the store.
C4_StoredAssetCompletesAtOnce ==
  /\ \A s \in Sessions : sess[s].hadRecord => sess[s].pc = "check"
  /\ last.rec.hadRecord =>
       /\ last.rec.outcome = "completed"
       /\ last.rec.lastPct = Num(100, 1)
       /\ last.rec.did = {"progress", "settle"}
       /\ last.rec.written = <<>>

C4_Witness == last.s # 0 /\ last.rec.hadRecord

\* The declared size of the asset of r exceeds available - used.
Exceeds(r) ==
  Info(r.model).sizeBytes > r.storage.available - r.storage.used

\* C5 as stated: a download whose declared size exceeds available - used
\* when its pre-flight runs fails with the quota error.
C5_ExceedingSizeFails ==
  last.rec.storage # NoEstimate /\ Exceeds(last.rec)
    => last.rec.error = QuotaMessage

\* C5, amended: a download of an asset that has no metadata record, and
\* whose declared size exceeds available - used, fails at once with the
\* quota error, issues no request and puts nothing; one whose declared size
\* is at most available - used goes on to its request.
C5_QuotaPreflight ==
  [][\A s \in Sessions :
       sess[s].pc = "quota" /\ sess'[s].pc # "quota" =>
         /\ ~sess[s].existing
         /\ IF Exceeds(sess[s])
              THEN /\ sess'[s].pc = "done"
                   /\ last'.s = s
                   /\ last'.rec.outcome = "failed"
                   /\ last'.rec.error = QuotaMessage
                   /\ last'.rec.did = {"settle"}
                   /\ models' = models /\ chunks' = chunks
              ELSE /\ sess'[s].pc = "fetch"
                   /\ "request" \in sess'[s].did]_vars

C5_Witness ==
  last.s # 0 /\ last.rec.error = QuotaMessage /\ ~last.rec.existing

\* C6: once the cancellation of a download whose transfer is under way has
\* been requested, its next step ends it as cancelled, and no progress event
\* of it is delivered.
C6_CancelEndsTheSession ==
  \A r \in Records :
    r.cancelReq /\ "cancel" \notin r.did
      => r.pc = "done" /\ r.outcome = "cancelled" /\ "progress" \notin r.did

\* C7: once the cancellation of a download has been requested, it puts no
\* further chunk (the put under way was issued before) and never the
\* metadata record.
C7_NoWriteAfterCancel ==
  \A r \in Records :
    r.cancelReq /\ "cancel" \notin r.did
      => "chunk" \notin r.did /\ "metadata" \notin r.did

\* C8: the metadata record is put only after every chunk of the invocation
\* has been stored: when the put of the metadata is under way, every chunk
\* put of the invocation has settled and the chunks hold all the bytes
\* received, the last undersized chunk included.
C8_MetadataAfterAllChunks ==
  \A r \in Records :
    r.pc \in {"meta", "xhrMeta"} =>
      /\ r.acked = Len(r.written)
      /\ Len(Concat(r.written)) = r.downloadedBytes

\* The metadata follows a full chunk and an undersized last one.
C8_Witness ==
  \E s \in Sessions :
    /\ sess[s].pc \in {"meta", "xhrMeta"} /\ sess[s].writeOk
    /\ Len(sess[s].written) = 2
    /\ Len(sess[s].written[2]) < CHUNK_SIZE

\* C9: deleteModel(n) leaves neither the metadata record nor any chunk of
\* n, and leaves the records of every other asset as they were.
C9_DeleteRemovesTheAsset ==
  [][\A n \in Names :
       deletes' = deletes + 1 /\ last'.deleted = n =>
         /\ \A m \in getStoredModels(models') : m.id # n
         /\ getModelChunks(chunks', n) = <<>>
         /\ \A o \in Names \ {n} :
              /\ o \in DOMAIN models' <=> o \in DOMAIN models
              /\ o \in DOMAIN models => models'[o] = models[o]
              /\ ChunkIndices(chunks', o) = ChunkIndices(chunks, o)
              /\ getModelChunks(chunks', o) = getModelChunks(chunks, o)]_vars

\* An asset with a record and chunks has been deleted while another asset
\* has chunks.
C9_Witness ==
  /\ last.deleted # "-"
  /\ \E o \in Names \ {last.deleted} : ChunkIndices(chunks, o) # {}

\* The percentage p is a number of [0, 100].
InRange(p) == p.kind = "num" /\ p.num >= 0 /\ p.num <= 100 * p.den

\* C10: every progress event carries a percentage in [0, 100], never NaN
\* and never infinite.
C10_PercentageInRange ==
  \A r \in Records : "progress" \in r.did => InRange(r.lastPct)

\* The terminal notification of the invocation of r came with an earlier
\* step: its cancellation was requested (downloadsStore.cancelDownload), or
\* its promise was settled.
Notified(r) ==
  /\ "cancel" \notin r.did
  /\ r.cancelReq \/ (Settled(r) /\ "settle" \notin r.did)

\* C11: the terminal notification of a download comes once and is its last
\* event: after it the download delivers no progress event and no second
\* terminal notification.
C11_TerminalEventIsLast ==
  \A r \in Records :
    Notified(r) => "progress" \notin r.did /\ "settle" \notin r.did

\* The bytes of the chunks cs before the i-th.
RECURSIVE LengthBefore(_, _)
LengthBefore(cs, i) ==
  IF i <= 1 THEN 0 ELSE LengthBefore(cs, i - 1) + Len(cs[i - 1])

\* C12: getModelData returns a buffer as long as the stored chunks of the
\* asset together, in which every chunk lies at the end of the chunks that
\* getModelChunks returns before it: no gap and no overlap.
C12_ReassemblyIsConcatenation ==
  \A n \in Names :
    LET cs   == getModelChunks(chunks, n)
        data == getModelData(chunks, n)
    IN  /\ Len(data) = LengthBefore(cs, Len(cs) + 1)
        /\ \A i \in 1..Len(cs) : \A j \in 1..Len(cs[i]) :
             data[LengthBefore(cs, i) + j] = cs[i][j]

\* Chunks of different lengths are stored at every index of an asset.
C12_Witness ==
  \E n \in Names :
    /\ ChunkIndices(chunks, n) = StoreIndices
    /\ Len(chunks[<<n, 0>>]) # Len(chunks[<<n, 1>>])
    /\ Len(chunks[<<n, 2>>]) # Len(chunks[<<n, 10>>])

\* The keys of the chunks stored for asset n.
KeysOf(n) == { k \in DOMAIN chunks : k[1] = n }

\* C13: getModelChunks returns every chunk stored for the asset once, the
\* chunk of key k at the place given by the number of stored indices that
\* are numerically smaller, whatever the order of the puts.
C13_ChunksInIndexOrder ==
  \A n \in Names :
    LET out == getModelChunks(chunks, n)
    IN  /\ Len(out) = Cardinality(KeysOf(n))
        /\ \A k \in KeysOf(n) :
             out[Cardinality({ j \in KeysOf(n) : j[2] < k[2] }) + 1] = chunks[k]

\* Different chunks are stored at the indices 2 and 10, which the lexical
\* order of their decimal writing would exchange.
C13_Witness ==
  \E n \in Names :
    /\ {<<n, 2>>, <<n, 10>>} \subseteq DOMAIN chunks
    /\ chunks[<<n, 2>>] # chunks[<<n, 10>>]

\* C14: every chunk a completed download has put, except the last, has
\* exactly CHUNK_SIZE bytes, and n bytes are stored as ceil(n / CHUNK_SIZE)
\* chunks.
C14_ChunksHaveChunkSize ==
  \A r \in Records :
    r.outcome = "completed" =>
      /\ \A i \in 1..(Len(r.written) - 1) : Len(r.written[i]) = CHUNK_SIZE
      /\ Len(r.written) = (r.downloadedBytes + CHUNK_SIZE - 1) \div CHUNK_SIZE

\* C15: a streaming download whose read has brought nothing for longer than
\* the stall window ends, also when the read never returns.
C15_StallEndsTheSession ==
  \A s \in Sessions :
    (sess[s].pc = "read" /\ sess[s].stalled) ~> (sess[s].pc = "done")

\* C16: a response without a readable body is never surfaced as a failure:
\* no download ends with the error of the missing body.
C16_NoBodyFallsBack ==
  \A r \in Records : r.error # NoBodyMessage

\* C17: a download cancelled while it is in the fallback, its abort listener
\* having rejected the promise, puts no chunk and no metadata record
\* afterwards.
C17_FallbackHonoursCancel ==
  \A r \in Records :
    /\ r.pc \in {"xhrStore", "xhrMeta"}
    /\ r.outcome = "cancelled"
    /\ "cancel" \notin r.did
    => "chunk" \notin r.did /\ "metadata" \notin r.did

\* C18: what the requester can observe, the downloads store, is after the
\* step that fails a download not what it would be had the download
\* completed.
C18_FailureIsObserved ==
  [][last'.s # 0 /\ last'.rec.outcome = "failed" /\ "settle" \in last'.rec.did
       => activeDownloads' # completeDownload(activeDownloads, last'.rec.id)]_vars

\* C19: mounting or unmounting the component changes nothing of any
\* download, of the abort controller or of the store, and a download stops
\* running only by a step that settles or cancels it.
C19_LifetimeIndependence ==
  [][/\ mounted' # mounted =>
          /\ sess' = sess
          /\ activeDownloads' = activeDownloads
          /\ abortController' = abortController
          /\ aborted' = aborted
          /\ models' = models
          /\ chunks' = chunks
     /\ \A s \in Sessions :
          Running(s) /\ sess'[s].pc = "done" =>
            /\ mounted' = mounted
            /\ sess'[s].outcome \in {"completed", "cancelled", "failed"}]_vars

\* A download that was started through the component completes, chunks and
\* metadata stored, while the component is unmounted.
C19_Witness ==
  /\ ~mounted
  /\ last.s # 0
  /\ last.rec.outcome = "completed"
  /\ last.rec.written # <<>>
  /\ "progress" \in last.rec.did

\* C20: with downloads of two different assets running, cancelling one
\* leaves the other as it was and aborts neither the controller made for
\* the other nor the signal the other has given to fetch.
C20_CancelIsPerSession ==
  [][\A a, b \in Sessions :
       /\ Running(a) /\ Running(b)
       /\ sess[a].model # sess[b].model
       /\ CancelDownload(sess[a].id)
       => /\ sess'[b] = sess[b]
          /\ b \in aborted' => b \in aborted
          /\ sess[b].signal \in aborted' => sess[b].signal \in aborted]_vars

\* The record of session s after a step: of a session that the step ended,
\* the record as it ended.
After(s) == IF last'.s = s THEN last'.rec ELSE sess'[s]

\* Session s has taken the step.
Stepped(s) == sess'[s] # sess[s]

\* C21: a progress event of a session never carries a percentage below the
\* one of the session's previous progress event, from the initial 0% event
\* through the final 100% event.
C21_PercentageNeverDecreases ==
  [][\A s \in Sessions :
       /\ Stepped(s)
       /\ "progress" \in After(s).did
       /\ sess[s].lastPct # NoProgress
       => NotBelow(After(s).lastPct, sess[s].lastPct)]_vars

\* C22: the chunk indices stored for an asset that has a metadata record
\* are exactly 0..k-1 for some k >= 0.
C22_CompleteAssetIsContiguous ==
  \A n \in DOMAIN models :
    ChunkIndices(chunks, n) = 0..(Cardinality(ChunkIndices(chunks, n)) - 1)

\* The program points at which a chunk put of the invocation is pending.
Storing == {"store", "storeLast", "xhrStore"}

\* C23: the chunk puts of a session carry the indices 0, 1, 2, ... in the
\* order they are issued, one put at most is pending, and while a read of
\* the stream (or anything but a put) is awaited every put has settled.
C23_ChunkWritesAreSequential ==
  \A r \in Records :
    r.writeOk =>
      IF r.pc \in Storing
        THEN /\ r.chunkIndex = Len(r.written) - 1
             /\ r.acked = Len(r.written) - 1
        ELSE r.acked = Len(r.written)

\* The second chunk put of a streamed session is pending.
C23_Witness ==
  \E s \in Sessions :
    /\ sess[s].pc \in {"store", "storeLast"}
    /\ sess[s].writeOk
    /\ sess[s].chunkIndex = 1
    /\ Len(sess[s].written) = 2

\* C24: a streamed session whose cancellation was requested while its
\* transfer was under way ends with the outcome 'cancelled', never as a
\* failed download.
C24_CancelledIsNotAFailure ==
  \A r \in Records :
    r.cancelReq /\ Settled(r) /\ r.iterations > 0 => r.outcome = "cancelled"

\* C25: a step of a session that ends, or has ended, as cancelled or failed
\* removes and changes no stored chunk and writes no metadata record.
C25_EndedSessionLeavesTheStore ==
  [][\A s \in Sessions :
       /\ Stepped(s)
       /\ After(s).outcome \in {"cancelled", "failed"}
       => /\ models' = models
          /\ \A k \in DOMAIN chunks :
               k \in DOMAIN chunks' /\ chunks'[k] = chunks[k]]_vars

\* What ends a streamed session as failed: a rejected read, the stall
\* timeout, the ceiling of iterations, a rejected put.
StreamFailures ==
  {AbortMessage, "network error", TimeoutMessage, IterationsMessage,
   "storage error"}

\* C26: the total that the progress of a streamed session is computed from
\* is the Content-Length of the response when the header is present and the
\* descriptor's sizeBytes when it is absent; and no streamed session fails
\* for the number of bytes it has received: it fails by a rejected read or
\* put, the stall timeout or the ceiling of iterations, whatever the count.
C26_TotalAndMismatchPolicy ==
  \A r \in Records :
    /\ r.response.status = "ok" =>
         r.totalBytes = IF r.response.present
                          THEN r.response.length
                          ELSE Info(r.model).sizeBytes
    /\ r.iterations > 0 /\ r.outcome = "failed" => r.error \in StreamFailures

\* A streamed session has completed at the end of the stream with more
\* bytes received than the total its progress was computed from.
C26_Witness ==
  /\ last.rec.outcome = "completed"
  /\ last.rec.iterations > 0
  /\ last.rec.downloadedBytes > last.rec.totalBytes
  /\ last.rec.totalBytes > 0
  /\ last.rec.model \in DOMAIN models

\* C27: the size in the metadata record that a session writes is the number
\* of bytes the session has received, which is the sum of the lengths of
\* the chunks it has stored.
C27_RecordedSizeIsReceivedBytes ==
  [][\A s \in Sessions :
       /\ Stepped(s)
       /\ "metadata" \in After(s).did
       /\ After(s).writeOk
       => /\ After(s).model \in DOMAIN models'
          /\ models'[After(s).model].size = After(s).downloadedBytes
          /\ After(s).downloadedBytes = TotalSize(After(s).written)]_vars

\* The metadata record of a streamed session is written with the size of
\* the bytes received, which is not the total the response declared.
C27_Witness ==
  \E s \in Sessions :
    /\ sess[s].pc = "meta"
    /\ sess[s].writeOk
    /\ "metadata" \in sess[s].did
    /\ sess[s].downloadedBytes = MaxBody
    /\ sess[s].totalBytes # MaxBody
    /\ sess[s].model \in DOMAIN models
    /\ models[sess[s].model].size = MaxBody

\* C28: a session awaits reader.read() in at most MAX_ITERATIONS iterations
\* of its loop; it fails by the ceiling only in the iteration after the
\* MAX_ITERATIONS-th, so a stream that ends within the ceiling is not
\* failed by it; and the session that fails by the ceiling has ended
\* without a metadata write.
C28_IterationCeiling ==
  \A r \in Records :
    /\ r.iterations <= MAX_ITERATIONS + 1
    /\ r.pc = "read" => r.iterations \in 1..MAX_ITERATIONS
    /\ r.error = IterationsMessage =>
         /\ r.iterations = MAX_ITERATIONS + 1
         /\ r.pc = "done"
         /\ r.outcome = "failed"
         /\ "metadata" \notin r.did

\* A stream that is still delivering data after MAX_ITERATIONS reads has
\* been given up: chunks of it are stored, no metadata record is.
C28_Witness ==
  /\ last.rec.error = IterationsMessage
  /\ last.rec.written # <<>>
  /\ last.rec.downloadedBytes = MaxBody
  /\ last.rec.model \notin DOMAIN models

\* C29: a session is not failed by the stall timeout in the iteration that
\* follows a read which delivered a non-empty range, be it right after the
\* read or after the put of the chunk that the range has filled.
C29_NoTimeoutAfterData ==
  [][\A s \in Sessions :
       Stepped(s) /\ After(s).error = TimeoutMessage
       => /\ After(s).downloadedBytes = sess[s].downloadedBytes
          /\ sess[s].pc # "store"]_vars

\* C30: when fetch resolves with a status that is not a success, the
\* session ends failed at once and no second request is made.
C30_NonSuccessStatusFails ==
  \A r \in Records :
    r.response.status = "notOk" =>
      /\ r.pc = "done"
      /\ r.outcome = "failed"
      /\ "request" \notin r.did

\* C31: two calls of the store's startDownload whose downloads are both
\* under way have returned different session ids.
C31_SessionIdsAreUnique ==
  \A s, u \in Sessions :
    s # u /\ Running(s) /\ Running(u) => sess[s].id # sess[u].id

\* C32: downloadModel takes the asset for downloaded exactly when the store
\* holds a metadata record whose id is the descriptor's identifier.
C32_ExistingIsDecidedByIdentifier ==
  \A r \in Records :
    r.pc = "check" => (r.existing <=> r.hadRecord)

\* C33: when fetch is rejected by the abort of a cancel that came while the
\* request was pending, the session ends as cancelled at once: no
\* XMLHttpRequest is sent and nothing has been stored.
C33_CancelDuringFetchEndsTheSession ==
  \A r \in Records :
    r.response.status = "aborted" /\ r.cancelReq =>
      /\ r.pc = "done"
      /\ r.outcome = "cancelled"
      /\ "request" \notin r.did
      /\ r.written = <<>>

\* The store holds nothing of asset n: no metadata record and no chunk.
NothingStored(n) == n \notin DOMAIN models /\ ChunkIndices(chunks, n) = {}

\* The store holds a metadata record of asset n and the chunks of the bytes
\* the record stands for, all of them and no others.
CompletelyStored(n) ==
  /\ n \in DOMAIN models
  /\ Concat(getModelChunks(chunks, n)) = Body(n, models[n].size)

\* C35: when the first download (nothing is stored before it, so that a
\* delete can only be of its asset and not before it has stored something)
\* has ended as completed and deleteModel has been called, the store holds
\* nothing of the asset, or its metadata record with the complete chunk set.
C35_DeleteLeavesNoOrphans ==
  /\ sess[1].pc = "done"
  /\ sess[1].outcome = "completed"
  /\ sess[2].pc = "idle"
  /\ deletes = MaxDeletes
  => NothingStored(sess[1].model) \/ CompletelyStored(sess[1].model)

\* Map b maps every key but id as map a does.
SameButFor(a, b, id) ==
  /\ DOMAIN b \ {id} = DOMAIN a \ {id}
  /\ \A k \in DOMAIN a \ {id} : b[k] = a[k]

\* C36: in the downloads store, updateDownloadProgress, completeDownload
\* and cancelDownload for a session id leave the entry of every other id as
\* it is; updateDownloadProgress for an id without an entry changes nothing
\* and makes no entry; hasActiveDownloads tells whether there is an entry.
C36_StoreOperationsAreFramed ==
  /\ \A id \in StoreIds :
       /\ \A progress \in StoreProgress :
            LET u == updateDownloadProgress(activeDownloads, id, progress)
            IN  /\ SameButFor(activeDownloads, u, id)
                /\ DOMAIN u = DOMAIN activeDownloads
                /\ id \notin DOMAIN activeDownloads => u = activeDownloads
                /\ id \in DOMAIN activeDownloads => u[id].progress = progress
       /\ SameButFor(activeDownloads, completeDownload(activeDownloads, id), id)
       /\ id \notin DOMAIN completeDownload(activeDownloads, id)
       /\ SameButFor(activeDownloads, cancelDownload(activeDownloads, id), id)
       /\ id \notin DOMAIN cancelDownload(activeDownloads, id)
  /\ hasActiveDownloads <=> Cardinality(DOMAIN activeDownloads) > 0

\* The store holds two entries, one whose progress has been updated and one
\* whose progress has not, and an id of an earlier time has no entry.
C36_Witness ==
  /\ \E a, b \in DOMAIN activeDownloads :
       /\ a # b
       /\ activeDownloads[a].progress = Num(50, 1)
       /\ activeDownloads[b].progress = Num(0, 1)
  /\ \E id \in StoreIds :
       id[2] < now /\ id \notin DOMAIN activeDownloads

\* C34: the store operation that a caller makes after its init() has
\* resolved finds the database open.
C34_InitIsRaceFree ==
  \A c \in Callers :
    manager.callers[c].pc = "done" =>
      manager.callers[c].result # NotInitializedMessage

\* C37: startClickThrough() is never called while isControlActive is set.
C37_NoClickThroughInControlMode ==
  win.started # "active"

\* No call of setup() is awaiting a listen.
NoSetupInProgress == \A i \in Setups : win.setups[i] \in {"idle", "done"}

\* C38: each event of the window mode has one listener at most, and when
\* isSetup is not set (cleanup() was the last to write it, or nothing has
\* been set up) and no setup() is in progress, no listener is registered.
C38_ListenersAreCleanedUp ==
  /\ \A k \in DOMAIN Events : Cardinality(ListenersOf(win, Events[k])) <= 1
  /\ ~win.isSetup /\ NoSetupInProgress => win.listeners = {}

====
